---- MODULE Spec2Model ----
(***************************************************************************)
(* The task store of src/app.py (a Streamlit script) as a state machine.   *)
(*                                                                         *)
(* Streamlit runs the whole script, top to bottom, once per UI event.      *)
(* One step of the model is one script run: the widget that caused the run *)
(* is the event, and the blocks of the script are applied in source order: *)
(*   reset button (91-93), import block (94-115), export button (117),     *)
(*   quick_task form (121-133), Dashboard (139-159), Tasks Board filters   *)
(*   (162-177), edit_task_form (180-201), bulk_actions form (204-227).     *)
(* An uncaught exception ends the run at the line that raised it.          *)
(*                                                                         *)
(* Values: a task_id is an integer (a uuid4 is the next value of a         *)
(* counter, so it is fresh; NoneId is Python's None, NaNId the NaN pandas  *)
(* reads from a blank cell).  Text fields are strings; NaNVal is NaN and   *)
(* NoneVal is None.  `created` is the number of the script run, standing   *)
(* for datetime.now().                                                     *)
(***************************************************************************)
EXTENDS Integers, Sequences, FiniteSets, TLC

VARIABLES
    tasks_df,       \* st.session_state["tasks_df"]: the rows, in order
    has_columns,    \* whether that DataFrame has its columns (pd.DataFrame([]) has none)
    uploaded,       \* the file the uploader holds, or NoFile
    uuid_next,      \* the next uuid4
    runs,           \* script runs so far (the clock)
    ev,             \* the event of the last run, with the ids its widgets resolved to
    at_import,      \* the store when the last run reached line 94
    import_result,  \* "none", "ok" or "failed": what the import block did in the last run
    at_forms,       \* the store when the last run reached line 117
    crashed,        \* "" or the place where the last run raised
    dash,           \* what the Dashboard tab showed in the last run
    deleted,        \* task ids removed by "Delete selected" so far
    touched         \* task ids created, edited or changed by a bulk action so far

vars == <<tasks_df, has_columns, uploaded, uuid_next, runs, ev, at_import,
          import_result, at_forms, crashed, dash, deleted, touched>>

----------------------------------------------------------------------------
(* Bounds of the exploration *)

MaxRuns == 3        \* script runs per session
MaxRunsShort == 2   \* script runs per session under SpecShort
MaxPick == 2        \* the user picks among the first MaxPick options of a selector

----------------------------------------------------------------------------
(* Values *)

NoneId == -1
NaNId == 0
NoneVal == "None"
NaNVal == "NaN"
NoFile == "none"
Today == "today"

\* bool(x) of a task_id: None is falsy, NaN and every id are truthy
Truthy(id) == id # NoneId

\* pandas' == on task ids: NaN equals nothing, itself included
IdEq(a, b) == a # NaNId /\ b # NaNId /\ a = b

\* pd.notna
NotNa(v) == v # NaNVal /\ v # NoneVal

StatusOptions == <<"Backlog", "In Progress", "Completed", "On Hold", "Cancelled">>
PipelineOptions == <<"Backlog", "Lead", "Contacted", "Appointment", "Offer",
                     "Under Contract", "Closed">>
TypeOptions == <<"Operational", "Marketing", "Sales", "Admin", "Other">>
BulkActions == <<"Set status to In Progress", "Set status to Completed",
                 "Assign to...", "Delete selected">>

Range(s) == {s[i] : i \in DOMAIN s}

Min(S) == CHOOSE x \in S : \A y \in S : x <= y

\* the titles of load_demo_tasks (the en dash of title 5 is written "-")
core_tasks == <<
    "Cold Calling New Leads",
    "Appointment Booking & Calendar Management",
    "Marketing Content Creation (Posts, Reels, Ads)",
    "VOPs Email Tracker Management",
    "Lead Follow-Up (1-7 Day Sequences)",
    "Open House Scheduling & Coordination",
    "Property Showing Coordination",
    "CRM Data Entry & Updating",
    "Buyer Intake Screening",
    "Seller Intake Screening",
    "Running CMAs (Comparative Market Analysis)",
    "Creating & Completing BPOs (Broker Price Opinions)",
    "Weekly Market Update Reports",
    "Social Media Posting & Engagement (Daily)",
    "Listing Description Writing & Editing",
    "Photo / Video Shoot Scheduling for Listings",
    "Transaction Coordination Support",
    "Document Collection & Verification",
    "Pipeline Tracking (Active, Warm, Hot Leads)",
    "Appointment Reminder Texts & Emails",
    "Creating Buyer/Seller Guides & Material",
    "Email Marketing Campaign Setup",
    "Google Business Profile Updates & Reviews Follow-Up",
    "Neighborhood Farming & Outreach Tasks",
    "Weekly Team Reports & Analytics",
    "Expired & FSBO Outreach" >>

----------------------------------------------------------------------------
(* Helper functions of the script *)

make_task_row(task_id, title, type_, assignee, status, due, notes, pipeline_stage, uuid, now) ==
    [ task_id        |-> IF Truthy(task_id) THEN task_id ELSE uuid,
      title          |-> title,
      type           |-> type_,
      assignee       |-> assignee,
      status         |-> status,
      due            |-> due,
      notes          |-> notes,
      pipeline_stage |-> pipeline_stage,
      created        |-> now ]

\* load_demo_tasks with ids derived from the position of the title instead of
\* drawn fresh
load_demo_tasks_fixed_ids(uuid, now) ==
    [ i \in 1..Len(core_tasks) |->
        make_task_row(i, core_tasks[i], "Operational", "", "Backlog",
                      NoneVal, "", "Backlog", uuid + i - 1, now) ]

\* the DataFrame of the demo tasks; uuid is the first of the uuids it draws
load_demo_tasks(uuid, now) ==
    [ i \in 1..Len(core_tasks) |->
        make_task_row(NoneId, core_tasks[i], "Operational", "", "Backlog",
                      NoneVal, "", "Backlog", uuid + i - 1, now) ]

TaskIds(df) == { df[i].task_id : i \in DOMAIN df }

----------------------------------------------------------------------------
(* The files a user may give the uploader: what pd.read_csv returns for    *)
(* each.  A row maps the columns of the file to its cells.                 *)

Files == {"bad.csv", "empty.csv", "titles.csv", "export.csv", "dup.csv", "blank.csv"}

FileContent(f) ==
    CASE f = "bad.csv" ->          \* not parseable: pd.read_csv raises
           [readable |-> FALSE, rows |-> <<>>]
      [] f = "empty.csv" ->        \* a header line and no rows
           [readable |-> TRUE, rows |-> <<>>]
      [] f = "titles.csv" ->       \* a single column, title
           [readable |-> TRUE,
            rows |-> << [title |-> "A"], [title |-> "B"] >>]
      [] f = "export.csv" ->       \* an earlier export of the first two demo tasks, edited
           [readable |-> TRUE,
            rows |-> << [task_id |-> 1, title |-> core_tasks[1], type |-> "Operational",
                         assignee |-> "ann", status |-> "Completed",
                         pipeline_stage |-> "Lead", due |-> "2026-01-02",
                         created |-> "2025-12-01", notes |-> "memo"],
                        [task_id |-> 2, title |-> core_tasks[2], type |-> "Sales",
                         assignee |-> "bob", status |-> "Backlog",
                         pipeline_stage |-> "Backlog", due |-> "2026-01-02",
                         created |-> "2025-12-01", notes |-> "memo"] >>]
      [] f = "dup.csv" ->          \* the same task_id on two lines
           [readable |-> TRUE,
            rows |-> << [task_id |-> 1, title |-> "A", status |-> "Backlog",
                         pipeline_stage |-> "Backlog"],
                        [task_id |-> 1, title |-> "B", status |-> "Backlog",
                         pipeline_stage |-> "Backlog"] >>]
      [] f = "blank.csv" ->        \* a blank task_id cell, a blank status cell
           [readable |-> TRUE,
            rows |-> << [task_id |-> NaNId, title |-> "A", status |-> "Backlog",
                         pipeline_stage |-> "Backlog"],
                        [task_id |-> 2, title |-> "B", status |-> NaNVal,
                         pipeline_stage |-> "Backlog"] >>]

\* r.get(column, default) on a row of df_in
Get(r, column, default) == IF column \in DOMAIN r THEN r[column] ELSE default

\* how many of the rows before row i draw a uuid
DrawnBefore(rows, i) ==
    Cardinality({ j \in 1..(i - 1) : ~Truthy(Get(rows[j], "task_id", NoneId)) })

\* the list `loaded` of the import block
LoadedRows(rows, uuid, now) ==
    [ i \in 1..Len(rows) |->
        make_task_row(Get(rows[i], "task_id", NoneId),
                      Get(rows[i], "title", ""),
                      Get(rows[i], "type", ""),
                      Get(rows[i], "assignee", ""),
                      Get(rows[i], "status", "Backlog"),
                      Get(rows[i], "due", NoneVal),
                      Get(rows[i], "notes", ""),
                      Get(rows[i], "pipeline_stage", ""),
                      uuid + DrawnBefore(rows, i), now) ]

----------------------------------------------------------------------------
(* The state of one script run as it moves down the script *)

NoRender == [rendered |-> FALSE, total |-> 0, backlog |-> 0, in_progress |-> 0,
             completed |-> 0, pipeline_counts |-> <<>>]

NoEvent == [kind |-> "init", file |-> NoFile,
            title |-> "", assignee |-> "", type |-> "", due |-> NoneVal, notes |-> "",
            edit_id |-> NoneId, updated |-> FALSE, changes |-> {},
            selected_ids |-> <<>>, bulk_action |-> "", assign_to |-> ""]

\* the run's view of the session when the script starts
RunStart ==
    [store |-> tasks_df, cols |-> has_columns, u |-> uuid_next, now |-> runs + 1,
     crash |-> "", at_import |-> tasks_df, import_result |-> "none",
     at_forms |-> tasks_df, dash |-> NoRender,
     deleted |-> deleted, touched |-> touched,
     edit_id |-> NoneId, selected_ids |-> <<>>]

----------------------------------------------------------------------------
(* Quick Controls column *)

\* if st.button("Reset to Demo Tasks")
ResetBlock(c, e) ==
    IF e.kind = "reset"
    THEN [c EXCEPT !.store = load_demo_tasks(c.u, c.now),
                   !.cols = TRUE,
                   !.u = c.u + Len(core_tasks)]
    ELSE c

\* the import block with the store assigned before the source is read
ImportBlockEager(c, file) ==
    LET c1 == [c EXCEPT !.at_import = c.store]
        f == FileContent(file)
    IN  IF file = NoFile
        THEN c1
        ELSE IF ~f.readable
        THEN [c1 EXCEPT !.store = <<>>, !.import_result = "failed"]
        ELSE [c1 EXCEPT !.store = LoadedRows(f.rows, c.u, c.now),
                        !.cols = Len(f.rows) > 0,
                        !.u = c.u + DrawnBefore(f.rows, Len(f.rows) + 1),
                        !.import_result = "ok"]

\* uploaded = st.file_uploader(...); if uploaded: try ... except.  The
\* uploader returns the file it holds on every run, as a fresh stream, so the
\* block reads the file again in every run until the file is removed.  Only
\* the read can raise: the row loop applies r.get and `or` to scalar cells.
ImportBlock(c, file) ==
    LET c1 == [c EXCEPT !.at_import = c.store]
        f == FileContent(file)
    IN  IF file = NoFile
        THEN c1
        ELSE IF ~f.readable
        THEN [c1 EXCEPT !.import_result = "failed"]
        ELSE [c1 EXCEPT !.store = LoadedRows(f.rows, c.u, c.now),
                        !.cols = Len(f.rows) > 0,
                        !.u = c.u + DrawnBefore(f.rows, Len(f.rows) + 1),
                        !.import_result = "ok"]

\* st.download_button("Export tasks CSV", df_to_display(...)): df_to_display
\* indexes the column "due", a KeyError on a DataFrame without columns
ExportButton(c) ==
    IF c.cols
    THEN [c EXCEPT !.at_forms = c.store]
    ELSE [c EXCEPT !.at_forms = c.store, !.crash = "export:117"]

\* with st.form("quick_task"): ... if submitted
CreateBlock(c, e) ==
    IF c.crash # "" \/ e.kind # "create"
    THEN c
    ELSE LET new == make_task_row(NoneId, e.title, e.type, e.assignee, "Backlog",
                                  e.due, "", "Backlog", c.u, c.now)
         IN  [c EXCEPT !.store = Append(c.store, new),
                       !.u = c.u + 1,
                       !.touched = c.touched \cup {new.task_id}]

----------------------------------------------------------------------------
(* Dashboard tab *)

CountWhere(df, field, value) ==
    Cardinality({ i \in DOMAIN df : df[i][field] = value })

\* df["pipeline_stage"].value_counts().to_dict(): NaN is not counted
PipelineCounts(df) ==
    [ s \in { df[i].pipeline_stage : i \in { j \in DOMAIN df : df[j].pipeline_stage # NaNVal } }
        |-> CountWhere(df, "pipeline_stage", s) ]

Dashboard(df) ==
    [rendered |-> TRUE,
     total |-> Len(df),
     backlog |-> CountWhere(df, "status", "Backlog"),
     in_progress |-> CountWhere(df, "status", "In Progress"),
     completed |-> CountWhere(df, "status", "Completed"),
     pipeline_counts |-> PipelineCounts(df)]

DashboardTab(c) ==
    IF c.crash # "" THEN c ELSE [c EXCEPT !.dash = Dashboard(c.store)]

----------------------------------------------------------------------------
(* Tasks Board tab *)

\* options of the "Type" filter: "All" and the types present (dropna)
TypeFilterOptions(df) ==
    {"All"} \cup { df[i].type : i \in { j \in DOMAIN df : NotNa(df[j].type) } }

\* options of the "Assignee" filter: "All" and the assignees present (fillna(""))
AssigneeFilterOptions(df) ==
    {"All"} \cup { IF NotNa(df[i].assignee) THEN df[i].assignee ELSE "" : i \in DOMAIN df }

\* the filtered df the forms take their options from (the search box left empty)
TasksBoardDf(df, type_filter, assignee_filter) ==
    LET Keep(r) == /\ (type_filter = "All" \/ r.type = type_filter)
                   /\ (assignee_filter = "All" \/ r.assignee = assignee_filter)
    IN  SelectSeq(df, Keep)

\* the values the user may give to the fields of the edit form
NewValue == [title |-> "Renamed", type |-> "Marketing", assignee |-> "bob",
             status |-> "In Progress", pipeline_stage |-> "Offer",
             due |-> "2026-02-03", notes |-> "edited"]

\* value= of the "Due date" input: the row's date, or date.today()
DueDefault(row) == IF NotNa(row.due) /\ row.due # "" THEN row.due ELSE Today

\* what each widget of the edit form returns: the user's value where the user
\* changed the widget, the widget's initial value otherwise
FormValues(row, changes) ==
    LET Val(field, initial) == IF field \in changes THEN NewValue[field] ELSE initial
    IN  [title          |-> Val("title", row.title),
         type           |-> Val("type", TypeOptions[1]),
         assignee       |-> Val("assignee", row.assignee),
         status         |-> Val("status", row.status),
         pipeline_stage |-> Val("pipeline_stage", row.pipeline_stage),
         due            |-> Val("due", DueDefault(row)),
         notes          |-> Val("notes", row.notes)]

\* the seven .at[df_idx, ...] assignments
UpdateRow(r, v) ==
    [r EXCEPT !.title = v.title, !.type = v.type, !.assignee = v.assignee,
              !.status = v.status, !.pipeline_stage = v.pipeline_stage,
              !.due = v.due, !.notes = v.notes]

\* with st.form("edit_task_form"); pick is the position of the chosen option
\* in df["task_id"].tolist(), 0 for the empty option
EditBlock(c, e, df, pick) ==
    IF c.crash # "" \/ pick = 0
    THEN c
    ELSE LET edit_id == df[pick].task_id
             found == { i \in DOMAIN df : IdEq(df[i].task_id, edit_id) }
             row == df[Min(found)]
             df_idx == Min({ i \in DOMAIN c.store : IdEq(c.store[i].task_id, edit_id) })
             c1 == [c EXCEPT !.edit_id = edit_id]
         IN  IF found = {}
             THEN [c1 EXCEPT !.crash = "edit:183"]
             ELSE IF row.status \notin Range(StatusOptions)
             THEN [c1 EXCEPT !.crash = "edit:187"]
             ELSE IF row.pipeline_stage \notin Range(PipelineOptions)
             THEN [c1 EXCEPT !.crash = "edit:188"]
             ELSE IF ~e.updated
             THEN c1
             ELSE [c1 EXCEPT !.store[df_idx] = UpdateRow(@, FormValues(row, e.changes)),
                             !.touched = c.touched \cup {edit_id}]

\* one pass of `for tid in selected_ids` over the frame: rows by index label,
\* dropped the labels removed so far
RECURSIVE BulkLoop(_, _, _, _, _, _)
BulkLoop(b, ids, k, action, assign_to, n) ==
    IF k > n
    THEN b
    ELSE LET tid == ids[k]
             idx_list == { i \in DOMAIN b.rows : i \notin b.dropped /\ IdEq(b.rows[i].task_id, tid) }
             idx == Min(idx_list)
             b1 == IF idx_list = {} THEN b
                   ELSE IF action = "Set status to In Progress"
                   THEN [b EXCEPT !.rows[idx].status = "In Progress",
                                  !.touched = @ \cup {tid}]
                   ELSE IF action = "Set status to Completed"
                   THEN [b EXCEPT !.rows[idx].status = "Completed",
                                  !.touched = @ \cup {tid}]
                   ELSE IF action = "Assign to..."
                   THEN [b EXCEPT !.rows[idx].assignee = assign_to,
                                  !.touched = @ \cup {tid}]
                   ELSE IF action = "Delete selected"
                   THEN [b EXCEPT !.dropped = @ \cup {idx},
                                  !.deleted = @ \cup {tid}]
                   ELSE b
         IN  BulkLoop(b1, ids, k + 1, action, assign_to, n)

\* reset_index(drop=True): the rows left, in order, renumbered
RECURSIVE ResetIndex(_, _, _)
ResetIndex(rows, dropped, i) ==
    IF i > Len(rows) THEN <<>>
    ELSE (IF i \in dropped THEN <<>> ELSE <<rows[i]>>) \o ResetIndex(rows, dropped, i + 1)

\* the multiselect's value: the options at the chosen positions
RECURSIVE SelectedIds(_, _)
SelectedIds(df, picks) ==
    IF picks = {} THEN <<>>
    ELSE <<df[Min(picks)].task_id>> \o SelectedIds(df, picks \ {Min(picks)})

\* with st.form("bulk_actions"): ... if do_bulk
BulkBlock(c, e, df, picks) ==
    IF c.crash # "" \/ e.kind # "bulk"
    THEN c
    ELSE LET selected_ids == SelectedIds(df, picks)
             b == BulkLoop([rows |-> c.store, dropped |-> {}, deleted |-> c.deleted,
                            touched |-> c.touched],
                           selected_ids, 1, e.bulk_action, e.assign_to, Len(selected_ids))
         IN  IF selected_ids = <<>>
             THEN c
             ELSE [c EXCEPT !.store = ResetIndex(b.rows, b.dropped, 1),
                            !.deleted = b.deleted,
                            !.touched = b.touched,
                            !.selected_ids = selected_ids]

----------------------------------------------------------------------------
(* One script run *)

\* the families of inputs the exploration draws from
QuickTitles == {"A"}
QuickAssignees == {"ann"}
QuickTypes == {"Sales"}
QuickDues == {NoneVal, "2026-01-02"}
QuickNotes == {"", "memo"}
EditChoices == { {}, {"title"}, {"status", "pipeline_stage"},
                 {"type", "assignee", "due", "notes"} }
AssignTo == {"bob"}

\* the positions the user may pick in a selector that lists df's task ids
Picks(df) == { p \in 1..MaxPick : p <= Len(df) }

\* The script from line 73 to its end for the event e, with the uploader
\* holding `file`.  The run of an edit or bulk event also reads the Tasks
\* Board filters and the form's selector, whose values are among the
\* options the run itself renders.
ScriptRun(e, file) ==
    /\ runs < MaxRuns
    /\ \E c5 \in { DashboardTab(CreateBlock(ExportButton(
                     ImportBlock(ResetBlock(RunStart, e), file)), e)) } :
        \* a form is submitted only in a run that renders it
        /\ e.kind \in {"create", "edit", "bulk"} => c5.crash = ""
        /\ \E df \in (IF e.kind \in {"edit", "bulk"}
                      THEN { TasksBoardDf(c5.store, type_filter, assignee_filter) :
                               type_filter \in TypeFilterOptions(c5.store),
                               assignee_filter \in AssigneeFilterOptions(c5.store) }
                      ELSE { c5.store }) :
            \E pick \in (IF e.kind = "edit" THEN Picks(df) ELSE {0}),
               picks \in (IF e.kind = "bulk" THEN SUBSET Picks(df) ELSE {{}}) :
            \E c7 \in { BulkBlock(EditBlock(c5, e, df, pick), e, df, picks) } :
                /\ tasks_df' = c7.store
                /\ has_columns' = c7.cols
                /\ uploaded' = file
                /\ uuid_next' = c7.u
                /\ runs' = runs + 1
                /\ ev' = [e EXCEPT !.file = file, !.edit_id = c7.edit_id,
                                   !.selected_ids = c7.selected_ids]
                /\ at_import' = c7.at_import
                /\ import_result' = c7.import_result
                /\ at_forms' = c7.at_forms
                /\ crashed' = c7.crash
                /\ dash' = c7.dash
                /\ deleted' = c7.deleted
                /\ touched' = c7.touched

\* a widget that changes no state (a tab, a dashboard filter, a download)
Rerun ==
    ScriptRun([NoEvent EXCEPT !.kind = "rerun"], uploaded)

\* the "Reset to Demo Tasks" button
ResetToDemo ==
    ScriptRun([NoEvent EXCEPT !.kind = "reset"], uploaded)

\* a file is dropped on the uploader
UploadFile ==
    \E f \in Files :
        ScriptRun([NoEvent EXCEPT !.kind = "upload"], f)

\* the file is removed from the uploader
RemoveFile ==
    /\ uploaded # NoFile
    /\ ScriptRun([NoEvent EXCEPT !.kind = "remove"], NoFile)

\* "Create Task"
CreateTask ==
    \E t \in QuickTitles, a \in QuickAssignees, ty \in QuickTypes,
       d \in QuickDues, n \in QuickNotes :
        ScriptRun([NoEvent EXCEPT !.kind = "create", !.title = t, !.assignee = a,
                                  !.type = ty, !.due = d, !.notes = n],
                  uploaded)

\* the edit form with a task chosen in its selector: shown (updated = FALSE)
\* or submitted with "Update Task"
EditTask ==
    \E updated \in BOOLEAN, changes \in EditChoices :
        /\ ~updated => changes = {}
        /\ ScriptRun([NoEvent EXCEPT !.kind = "edit", !.updated = updated,
                                     !.changes = changes],
                     uploaded)

\* "Apply" of the bulk form
BulkApply ==
    \E i \in DOMAIN BulkActions, to \in AssignTo :
        ScriptRun([NoEvent EXCEPT !.kind = "bulk", !.bulk_action = BulkActions[i],
                                  !.assign_to = to],
                  uploaded)

\* the first run of the session: line 73 seeds the store
Init ==
    /\ tasks_df = load_demo_tasks(1, 0)
    /\ has_columns = TRUE
    /\ uploaded = NoFile
    /\ uuid_next = Len(core_tasks) + 1
    /\ runs = 0
    /\ ev = NoEvent
    /\ at_import = tasks_df
    /\ import_result = "none"
    /\ at_forms = tasks_df
    /\ crashed = ""
    /\ dash = Dashboard(tasks_df)
    /\ deleted = {}
    /\ touched = {}

Next ==
    \/ Rerun
    \/ ResetToDemo
    \/ UploadFile
    \/ RemoveFile
    \/ CreateTask
    \/ EditTask
    \/ BulkApply

Spec == Init /\ [][Next]_vars

\* the same sessions, cut after MaxRunsShort runs
NextShort ==
    \/ runs < MaxRunsShort /\ Rerun
    \/ runs < MaxRunsShort /\ ResetToDemo
    \/ runs < MaxRunsShort /\ UploadFile
    \/ runs < MaxRunsShort /\ RemoveFile
    \/ runs < MaxRunsShort /\ CreateTask
    \/ runs < MaxRunsShort /\ EditTask
    \/ runs < MaxRunsShort /\ BulkApply

SpecShort == Init /\ [][NextShort]_vars

----------------------------------------------------------------------------
(* Properties *)

Fields == {"task_id", "title", "type", "assignee", "status", "due", "notes",
           "pipeline_stage", "created"}

\* the task ids a file carries in its task_id column
FileIds(f) ==
    IF f = NoFile THEN {}
    ELSE { Get(FileContent(f).rows[i], "task_id", NoneId) : i \in DOMAIN FileContent(f).rows }

\* the ids the last event's form acted on
Targets(e) == {e.edit_id} \cup Range(e.selected_ids)

\* C1: no two task records share the same task_id.
C1_UniqueTaskIds ==
    \A i, j \in DOMAIN tasks_df :
        i # j => tasks_df[i].task_id # tasks_df[j].task_id

\* C2: a submitted edit changes, in the record it names, only the fields
\* the caller changed, and changes no other record.
C2_UpdateOverwritesOnlyChanged ==
    (ev.kind = "edit" /\ ev.updated /\ crashed = "") =>
        /\ Len(tasks_df) = Len(at_forms)
        /\ \E k \in DOMAIN at_forms :
            /\ at_forms[k].task_id = ev.edit_id
            /\ \A i \in DOMAIN at_forms : i # k => tasks_df[i] = at_forms[i]
            /\ \A f \in Fields \ ev.changes : tasks_df[k][f] = at_forms[k][f]

\* what C3 says a bulk action makes of the store df
BulkExpected(df, ids, action, assign_to) ==
    LET Sel(r) == \E id \in ids : IdEq(r.task_id, id)
        Kept(r) == ~Sel(r)
    IN  IF action = "Delete selected"
        THEN SelectSeq(df, Kept)
        ELSE [ i \in DOMAIN df |->
                 IF ~Sel(df[i]) THEN df[i]
                 ELSE IF action = "Set status to In Progress"
                 THEN [df[i] EXCEPT !.status = "In Progress"]
                 ELSE IF action = "Set status to Completed"
                 THEN [df[i] EXCEPT !.status = "Completed"]
                 ELSE [df[i] EXCEPT !.assignee = assign_to] ]

\* C3: a bulk action is applied to every record whose task_id is selected,
\* ids that match no record are skipped, and every other record is
\* unchanged and in the same relative order.
C3_BulkAppliesToEverySelected ==
    (ev.kind = "bulk" /\ crashed = "") =>
        tasks_df = BulkExpected(at_forms, Range(ev.selected_ids),
                                ev.bulk_action, ev.assign_to)

\* C4: once a reset-to-demo event has been processed the store holds
\* exactly the 26 demo tasks, in order, each Backlog / Operational /
\* unassigned, and no record of the previous store.
C4_ResetLeavesDemo ==
    [][ ev'.kind = "reset" =>
          /\ Len(core_tasks) = 26
          /\ Len(tasks_df') = 26
          /\ \A i \in DOMAIN tasks_df' :
                /\ tasks_df'[i].title = core_tasks[i]
                /\ tasks_df'[i].status = "Backlog"
                /\ tasks_df'[i].type = "Operational"
                /\ tasks_df'[i].assignee = ""
          /\ TaskIds(tasks_df') \cap TaskIds(tasks_df) = {} ]_vars

\* C5: a failed import leaves the store as it was before the import block;
\* the import block replaces the store only when the source was read and
\* every row mapped.
C5_FailedImportLeavesStore ==
    /\ import_result = "failed" => at_forms = at_import
    /\ at_forms # at_import =>
          /\ import_result = "ok"
          /\ Len(at_forms) = Len(FileContent(uploaded).rows)
          /\ \A i \in DOMAIN at_forms :
                at_forms[i].title = Get(FileContent(uploaded).rows[i], "title", "")

\* a new upload fails on a store that holds the user's changes
C5_Witness ==
    /\ ev.kind = "upload"
    /\ import_result = "failed"
    /\ touched # {}
    /\ \E i \in DOMAIN tasks_df : tasks_df[i].task_id \in touched

\* C6: create appends one record with a fresh id, status and pipeline_stage
\* Backlog and the caller's title, type, assignee, due date and notes; the
\* records before it are unchanged.
C6_CreateAppendsGivenFields ==
    ev.kind = "create" =>
        /\ Len(tasks_df) = Len(at_forms) + 1
        /\ SubSeq(tasks_df, 1, Len(at_forms)) = at_forms
        /\ LET r == tasks_df[Len(tasks_df)]
           IN  /\ r.task_id \notin TaskIds(at_forms)
               /\ r.status = "Backlog"
               /\ r.pipeline_stage = "Backlog"
               /\ r.title = ev.title
               /\ r.type = ev.type
               /\ r.assignee = ev.assignee
               /\ r.due = ev.due
               /\ r.notes = ev.notes

\* C7 as stated: once a task has been deleted and its id has left the
\* store, no later event brings a record with that task_id back.
C7_DeletedNeverReturns ==
    [][ \A id \in deleted :
          id \notin TaskIds(tasks_df) => id \notin TaskIds(tasks_df') ]_vars

\* C7 as amended: the id of a deleted task returns to the store only by a
\* run whose import block read a file that carries that task_id; and an
\* edit names only an id the store holds when the form is rendered.
C7_DeletedReturnsOnlyByImport ==
    [][ /\ \A id \in deleted :
              (id \notin TaskIds(tasks_df) /\ id \in TaskIds(tasks_df')) =>
                  (import_result' = "ok" /\ id \in FileIds(uploaded'))
        /\ ev'.kind = "edit" => ev'.edit_id \in TaskIds(at_forms') ]_vars

\* a newly uploaded file brings back the id of a task deleted earlier
C7_Witness ==
    /\ ev.kind = "upload"
    /\ \E id \in deleted : id \in TaskIds(tasks_df) /\ id \notin TaskIds(at_import)

\* C8: every record's status and pipeline_stage are values of their
\* enumerations, so the edit form opens for any task without error.
C8_EnumsClosed ==
    /\ \A i \in DOMAIN tasks_df :
          /\ tasks_df[i].status \in Range(StatusOptions)
          /\ tasks_df[i].pipeline_stage \in Range(PipelineOptions)
    /\ crashed \notin {"edit:187", "edit:188"}

\* C9: a record that was created, edited or changed by a bulk action is
\* still in the store, unchanged, after any later event that is not a new
\* upload, a reset or an edit / bulk action on that record.
C9_ChangesPersist ==
    [][ ev'.kind \notin {"upload", "reset"} =>
          \A i \in DOMAIN tasks_df :
              (tasks_df[i].task_id \in touched /\ tasks_df[i].task_id \notin Targets(ev'))
                  => tasks_df[i] \in Range(tasks_df') ]_vars

\* C10: what the Dashboard shows at the end of an event are the counts of
\* the store as it is at the end of that event.
C10_DashboardCurrent ==
    dash.rendered => dash = Dashboard(tasks_df)

====
